---- MODULE Spec2Model ----
(***************************************************************************)
(* The ecl_identity_user_v3 resource of terraform-provider-ecl             *)
(* (ecl/resource_ecl_identity_user_v3.go): the Create, Read, Update and    *)
(* Delete callbacks and the helper resourceIdentityUserV3BuildMFARules,    *)
(* run by the plugin host one at a time against a configuration snapshot   *)
(* (schema.ResourceData) and a remote identity service.                    *)
(*                                                                         *)
(* Optional Go values are sequences of length at most one: <<>> is nil     *)
(* (a nil *bool, a nil map, no user), <<v>> is the value v.                *)
(***************************************************************************)
EXTENDS Integers, Sequences, FiniteSets, TLC

VARIABLES
    d,          \* the snapshot (schema.ResourceData) as the last handler left it
    remote,     \* the user held by the remote identity service: <<>> or <<user>>
    opName,     \* the handler that ran last: "none", "Create", "Read", "Update", "Delete"
    clients,    \* what each config.identityV3Client call of that run gave, in
                \* order: TRUE for a client, FALSE for an error
    old,        \* the last known state the handler started from
    new,        \* the snapshot as handed to the handler (what d.Get returned on entry)
    calls,      \* the remote calls of that run, in order
    log,        \* the debug log entries of that run, in order
    err,        \* whether the handler returned an error
    rules,      \* BuildMFARules on its own: the argument
    mfaRules,   \* BuildMFARules on its own: the value returned
    built,      \* BuildMFARules on its own: whether it has been applied
    nOps        \* the number of handler runs so far

vars ==
    <<d, remote, opName, clients, old, new, calls, log, err, rules, mfaRules, built, nOps>>

(***************************************************************************)
(* Bounds of the model.                                                    *)
(***************************************************************************)
\* the longest multi_factor_auth_rule list handed to BuildMFARules on its own
MaxGroups == 3
\* the longest rule list of one group handed to BuildMFARules on its own
MaxRuleLen == 2
\* the largest number of handler runs of one behaviour
MaxOps == 2

(***************************************************************************)
(* The schema (lines 28-111) and the option table (lines 11-16).           *)
(***************************************************************************)
\* userOptions: the four option flags; the schema name of each is also the
\* key of the flag in the remote options map
userOptions ==
    { "ignore_change_password_upon_first_use",
      "ignore_password_expiry",
      "ignore_lockout_failure_attempts",
      "multi_factor_auth_enabled" }

\* users.MultiFactorAuthRules, the options key of the flattened rule list
MultiFactorAuthRules == "multi_factor_auth_rules"

\* a flag of the configuration is absent, or set to false, or set to true
FlagValues == {"unset", "false", "true"}

\* one element of multi_factor_auth_rule: a group holding the list "rule"
Group(ruleList) == [rule |-> ruleList]

\* the extra map: nothing set, or one key
NoExtra == [k \in {} |-> ""]
SomeExtra == [k \in {"email"} |-> "alice@example.com"]

\* the multi_factor_auth_rule lists the configurations of the model use
MFALists ==
    { <<>>,
      <<Group(<<"otp">>)>>,
      <<Group(<<"otp", "sms">>), Group(<<"totp">>)>> }

\* the snapshot no configuration has touched: every field at the value d.Get
\* returns for an unset field (enabled has the schema default true)
NoResource ==
    [ id                     |-> "",
      default_project_id     |-> "",
      description            |-> "",
      domain_id              |-> "",
      enabled                |-> TRUE,
      extra                  |-> NoExtra,
      name                   |-> "",
      password               |-> "",
      region                 |-> "",
      flags                  |-> [f \in userOptions |-> "unset"],
      multi_factor_auth_rule |-> <<>> ]

\* the fields Update looks at, by schema name
ScalarFields ==
    {"default_project_id", "description", "domain_id", "enabled", "extra", "name"}
UpdateFields ==
    ScalarFields \cup {"password", "multi_factor_auth_rule"} \cup userOptions

(***************************************************************************)
(* The accessors of schema.ResourceData the handlers use.                  *)
(***************************************************************************)
\* d.Get(option).(bool) of an option flag: an unset flag reads as false
GetFlag(dd, option) == dd.flags[option] = "true"

\* d.GetOk(option): the value, and ok, which is true when the flag has been
\* set to something other than the zero value of its type (false)
GetOk(dd, option) ==
    [ v  |-> GetFlag(dd, option),
      ok |-> dd.flags[option] # "unset" /\ GetFlag(dd, option) # FALSE ]

\* d.Get(key)
Get(dd, key) == IF key \in userOptions THEN GetFlag(dd, key) ELSE dd[key]

\* d.HasChange(key): the value read from the last known state differs from
\* the value read from the snapshot handed to the handler
HasChange(o, n, key) == Get(o, key) # Get(n, key)

\* the region of the provider configuration
ConfigRegion == "RegionOne"

\* GetRegion(d, config): the region of the snapshot, else the provider's
GetRegion(dd) == IF dd.region # "" THEN dd.region ELSE ConfigRegion

\* CheckDeleted(d, err, "user"): a not-found error clears the ID and is
\* swallowed, any other error is returned
CheckDeleted(dd, notFound) ==
    IF notFound
    THEN [d |-> [dd EXCEPT !.id = ""], err |-> FALSE]
    ELSE [d |-> dd, err |-> TRUE]

(***************************************************************************)
(* resourceIdentityUserV3BuildMFARules (lines 301-311).                    *)
(***************************************************************************)
\* the loop of lines 304-308, from element i on, mfaRules being acc
RECURSIVE BuildFrom(_, _, _)
BuildFrom(rs, i, acc) ==
    IF i > Len(rs)
    THEN acc
    ELSE BuildFrom(rs, i + 1, Append(acc, rs[i].rule))

\* the loop with the new rule list put in front of mfaRules
RECURSIVE BuildFromPrepending(_, _, _)
BuildFromPrepending(rs, i, acc) ==
    IF i > Len(rs)
    THEN acc
    ELSE BuildFromPrepending(rs, i + 1, <<rs[i].rule>> \o acc)

BuildMFARulesPrepending(rs) == BuildFromPrepending(rs, 1, <<>>)

BuildMFARules(rs) == BuildFrom(rs, 1, <<>>)

(***************************************************************************)
(* The remote identity service, as the users package of the SDK shows it:  *)
(* it stores what a create request carries, gives it back on Get, and on   *)
(* an update request overwrites what the request carries (a zero value is  *)
(* not carried).                                                           *)
(***************************************************************************)
UserIDs == {"u1", "u2"}

\* options[key] = v
PutOption(options, key, v) ==
    [k \in DOMAIN options \cup {key} |-> IF k = key THEN v ELSE options[k]]

\* the entries of src written over those of dst
MergeMap(dst, src) ==
    [k \in DOMAIN dst \cup DOMAIN src |-> IF k \in DOMAIN src THEN src[k] ELSE dst[k]]

\* users.Create: the user the service holds after a create request
RemoteCreate(opts, newId) ==
    [ ID               |-> newId,
      DefaultProjectID |-> opts.DefaultProjectID,
      Description      |-> opts.Description,
      DomainID         |-> opts.DomainID,
      Enabled          |-> opts.Enabled[1],
      Extra            |-> opts.Extra[1],
      Name             |-> opts.Name,
      Options          |-> opts.Options,
      Password         |-> opts.Password ]

\* users.Update: the user the service holds after an update request
RemoteUpdate(u, opts) ==
    [ ID               |-> u.ID,
      DefaultProjectID |-> IF opts.DefaultProjectID # "" THEN opts.DefaultProjectID
                           ELSE u.DefaultProjectID,
      Description      |-> IF opts.Description # "" THEN opts.Description
                           ELSE u.Description,
      DomainID         |-> IF opts.DomainID # "" THEN opts.DomainID ELSE u.DomainID,
      Enabled          |-> IF Len(opts.Enabled) > 0 THEN opts.Enabled[1] ELSE u.Enabled,
      Extra            |-> IF Len(opts.Extra) > 0 THEN MergeMap(u.Extra, opts.Extra[1])
                           ELSE u.Extra,
      Name             |-> IF opts.Name # "" THEN opts.Name ELSE u.Name,
      Options          |-> MergeMap(u.Options, opts.Options),
      Password         |-> IF opts.Password # "" THEN opts.Password ELSE u.Password ]

\* users.Get: the users.User returned, which has no password
RemoteGet(u) ==
    [ ID               |-> u.ID,
      DefaultProjectID |-> u.DefaultProjectID,
      Description      |-> u.Description,
      DomainID         |-> u.DomainID,
      Enabled          |-> u.Enabled,
      Extra            |-> u.Extra,
      Name             |-> u.Name,
      Options          |-> u.Options ]

\* one remote call of a run: which, on which ID, with which request, and how
\* it ended: "ok", or "found" for a Get that returned the user; "missing" for
\* a Get the service answered with not-found; "error" for any other failure
Call(which, id, opts, result) ==
    [call |-> which, id |-> id, opts |-> opts, result |-> result]

\* one log.Printf("[DEBUG] ...") of a run
LogEntry(msg, val) == [msg |-> msg, val |-> val]

\* what a handler leaves: the snapshot, the remote user, what its
\* identityV3Client calls gave, its remote calls, its log entries and whether
\* it returned an error
Outcome(dd, rem, cl, cs, lg, e) ==
    [d |-> dd, remote |-> rem, clients |-> cl, calls |-> cs, log |-> lg, err |-> e]

\* lines 116-120, 164-168, 208-212, 287-291: identityV3Client failed, the
\* handler returns the error at once
ClientError(dd, rem) == Outcome(dd, rem, <<FALSE>>, <<>>, <<>>, TRUE)

(***************************************************************************)
(* resourceIdentityUserV3Read (lines 163-205).                             *)
(***************************************************************************)
\* lines 177-183 with the description taken from the wrong field of the user
ReadSetScalarsMixedUp(dd, user) ==
    [dd EXCEPT !.default_project_id = user.DefaultProjectID,
               !.description        = user.Name,
               !.domain_id          = user.DomainID,
               !.enabled            = user.Enabled,
               !.extra              = user.Extra,
               !.name               = user.Name,
               !.region             = GetRegion(dd)]

\* lines 177-183: the scalar and map fields, and the region
ReadSetScalars(dd, user) ==
    [dd EXCEPT !.default_project_id = user.DefaultProjectID,
               !.description        = user.Description,
               !.domain_id          = user.DomainID,
               !.enabled            = user.Enabled,
               !.extra              = user.Extra,
               !.name               = user.Name,
               !.region             = GetRegion(dd)]

\* lines 185-190: each option flag the returned options map holds
ReadSetFlags(dd, options) ==
    [dd EXCEPT !.flags =
        [o \in userOptions |->
            IF o \in DOMAIN options
            THEN (IF options[o] THEN "true" ELSE "false")
            ELSE dd.flags[o]]]

\* lines 194-199: one group per entry of the flattened sequence, from entry i
\* on, mfaRules being acc
RECURSIVE Regroup(_, _, _)
Regroup(v, i, acc) ==
    IF i > Len(v)
    THEN acc
    ELSE Regroup(v, i + 1, Append(acc, [rule |-> v[i]]))

\* lines 192-202: multi_factor_auth_rule is written inside the branch taken
\* when the options map holds the rules key as a sequence
ReadSetMFARules(dd, options) ==
    IF MultiFactorAuthRules \in DOMAIN options
    THEN [dd EXCEPT !.multi_factor_auth_rule = Regroup(options[MultiFactorAuthRules], 1, <<>>)]
    ELSE dd

\* lines 171-173 propagating every error of Get
ReadGetFailedAlwaysError(dd, get) == [d |-> dd, err |-> TRUE]

\* lines 171-173: Get returned an error; get tells which
ReadGetFailed(dd, get) == CheckDeleted(dd, get = "missing")

\* lines 170-204, the client being there. get is what users.Get does:
\* "found" (the user is returned), "missing" (the service reports no such
\* user: it is gone), "error" (any other failure)
ReadRun(dd, rem, get) ==
    IF get = "found"
    THEN LET user == RemoteGet(rem[1])
             d1   == ReadSetScalars(dd, user)
             d2   == ReadSetFlags(d1, user.Options)
             d3   == ReadSetMFARules(d2, user.Options)
         IN  Outcome(d3, rem, <<TRUE>>,
                     <<Call("Get", dd.id, <<>>, get)>>,
                     <<LogEntry("Retrieved ECL user", user)>>,
                     FALSE)
    ELSE LET failed == ReadGetFailed(dd, get)
         IN  Outcome(failed.d,
                     IF get = "missing" THEN <<>> ELSE rem,
                     <<TRUE>>,
                     <<Call("Get", dd.id, <<>>, get)>>,
                     <<>>,
                     failed.err)

\* lines 163-205: Read as Create and Update call it at their end. client
\* tells whether its own identityV3Client call gives a client
ReadHandler(dd, rem, client, get) ==
    IF client THEN ReadRun(dd, rem, get) ELSE ClientError(dd, rem)

\* what users.Get can do for the ID of dd against the remote user rem
GetOutcomes(dd, rem) ==
    IF Len(rem) > 0 /\ rem[1].ID = dd.id
    THEN {"found", "missing", "error"}
    ELSE {"missing", "error"}

(***************************************************************************)
(* resourceIdentityUserV3Create (lines 115-161).                           *)
(***************************************************************************)
\* lines 132-144: the options map of the create request
CreateOptions(dd) ==
    LET sent     == {o \in userOptions : GetOk(dd, o).ok}
        options  == [o \in sent |-> GetOk(dd, o).v]
        flatRules == BuildMFARules(dd.multi_factor_auth_rule)
    IN  IF Len(flatRules) > 0
        THEN PutOption(options, MultiFactorAuthRules, flatRules)
        ELSE options

\* createOpts with the password already in it when it is logged
CreateOptsAtLogWithPassword(dd) ==
    [ DefaultProjectID |-> dd.default_project_id,
      Description      |-> dd.description,
      DomainID         |-> dd.domain_id,
      Enabled          |-> <<dd.enabled>>,
      Extra            |-> <<dd.extra>>,
      Name             |-> dd.name,
      Options          |-> CreateOptions(dd),
      Password         |-> dd.password ]

\* lines 122-148: createOpts as line 148 logs it; Password is still the zero
\* value
CreateOptsAtLog(dd) ==
    [ DefaultProjectID |-> dd.default_project_id,
      Description      |-> dd.description,
      DomainID         |-> dd.domain_id,
      Enabled          |-> <<dd.enabled>>,
      Extra            |-> <<dd.extra>>,
      Name             |-> dd.name,
      Options          |-> CreateOptions(dd),
      Password         |-> "" ]

\* lines 150-153: createOpts as users.Create gets it
CreateOptsSent(dd) == [CreateOptsAtLog(dd) EXCEPT !.Password = dd.password]

\* lines 122-160, the client being there. created tells whether users.Create
\* succeeds, newId is the ID the service assigns, readClient and get are what
\* identityV3Client and users.Get do in the trailing Read
CreateRun(dd, rem, created, newId, readClient, get) ==
    LET entry == LogEntry("Create Options", CreateOptsAtLog(dd))
        opts  == CreateOptsSent(dd)
        call  == Call("Create", "", <<opts>>, IF created THEN "ok" ELSE "error")
    IN  IF ~created
        THEN Outcome(dd, rem, <<TRUE>>, <<call>>, <<entry>>, TRUE)
        ELSE LET r == ReadHandler([dd EXCEPT !.id = newId],
                                  <<RemoteCreate(opts, newId)>>, readClient, get)
             IN  Outcome(r.d, r.remote, <<TRUE>> \o r.clients,
                         <<call>> \o r.calls, <<entry>> \o r.log, r.err)

(***************************************************************************)
(* resourceIdentityUserV3Update (lines 207-284).                           *)
(***************************************************************************)
\* hasChange set whatever the fields are
UpdateHasChangeAlways(o, n) == TRUE

\* hasChange at line 267: lines 217-255 set it for the scalar fields and the
\* option flags
UpdateHasChangeAtLog(o, n) ==
    \E key \in ScalarFields \cup userOptions : HasChange(o, n, key)

\* hasChange at line 276: line 272 sets it for the password as well
UpdateHasChange(o, n) ==
    UpdateHasChangeAtLog(o, n) \/ HasChange(o, n, "password")

\* lines 248-265: the options map of the update request
UpdateOptions(o, n) ==
    LET changed   == {k \in userOptions : HasChange(o, n, k)}
        options   == [k \in changed |-> GetFlag(n, k)]
        flatRules == BuildMFARules(n.multi_factor_auth_rule)
    IN  IF HasChange(o, n, "multi_factor_auth_rule") /\ Len(flatRules) > 0
        THEN PutOption(options, MultiFactorAuthRules, flatRules)
        ELSE options

\* lines 215-268: updateOpts as line 268 logs it; Password is still the zero
\* value
UpdateOptsAtLog(o, n) ==
    [ DefaultProjectID |-> IF HasChange(o, n, "default_project_id")
                           THEN n.default_project_id ELSE "",
      Description      |-> IF HasChange(o, n, "description") THEN n.description ELSE "",
      DomainID         |-> IF HasChange(o, n, "domain_id") THEN n.domain_id ELSE "",
      Enabled          |-> IF HasChange(o, n, "enabled") THEN <<n.enabled>> ELSE <<>>,
      Extra            |-> IF HasChange(o, n, "extra") THEN <<n.extra>> ELSE <<>>,
      Name             |-> IF HasChange(o, n, "name") THEN n.name ELSE "",
      Options          |-> UpdateOptions(o, n),
      Password         |-> "" ]

\* lines 271-277: updateOpts as users.Update gets it
UpdateOptsSent(o, n) ==
    [UpdateOptsAtLog(o, n) EXCEPT
        !.Password = IF HasChange(o, n, "password") THEN n.password ELSE ""]

\* lines 214-283, the client being there. updated tells whether users.Update
\* succeeds, readClient and get are what identityV3Client and users.Get do in
\* the trailing Read
UpdateRun(o, n, rem, updated, readClient, get) ==
    LET entries == IF UpdateHasChangeAtLog(o, n)
                   THEN <<LogEntry("Update Options", UpdateOptsAtLog(o, n))>>
                   ELSE <<>>
        opts    == UpdateOptsSent(o, n)
        call    == Call("Update", n.id, <<opts>>, IF updated THEN "ok" ELSE "error")
    IN  IF UpdateHasChange(o, n)
        THEN IF ~updated
             THEN Outcome(n, rem, <<TRUE>>, <<call>>, entries, TRUE)
             ELSE LET r == ReadHandler(n, <<RemoteUpdate(rem[1], opts)>>, readClient, get)
                  IN  Outcome(r.d, r.remote, <<TRUE>> \o r.clients,
                              <<call>> \o r.calls, entries \o r.log, r.err)
        ELSE LET r == ReadHandler(n, rem, readClient, get)
             IN  Outcome(r.d, r.remote, <<TRUE>> \o r.clients,
                         r.calls, entries \o r.log, r.err)

\* what users.Update can do for the ID of dd against the remote user rem
UpdateOutcomes(dd, rem) ==
    IF Len(rem) > 0 /\ rem[1].ID = dd.id THEN {TRUE, FALSE} ELSE {FALSE}

(***************************************************************************)
(* resourceIdentityUserV3Delete (lines 286-299).                           *)
(***************************************************************************)
\* lines 293-298, the client being there. deleted tells whether users.Delete
\* succeeds
DeleteRun(dd, rem, deleted) ==
    Outcome(dd, IF deleted THEN <<>> ELSE rem, <<TRUE>>,
            <<Call("Delete", dd.id, <<>>, IF deleted THEN "ok" ELSE "error")>>, <<>>, ~deleted)

(***************************************************************************)
(* The configurations the plugin host hands to Create and Update.          *)
(***************************************************************************)
\* the configuration that sets nothing
NoConfig == NoResource

\* a user with a name, multi-factor authentication on and one rule group
AliceConfig ==
    [NoConfig EXCEPT !.name = "alice",
                     !.flags["multi_factor_auth_enabled"] = "true",
                     !.multi_factor_auth_rule = <<Group(<<"otp", "sms">>)>>]

\* a configuration that sets every field
FullConfig ==
    [ id                     |-> "",
      default_project_id     |-> "proj",
      description            |-> "new",
      domain_id              |-> "dom",
      enabled                |-> FALSE,
      extra                  |-> SomeExtra,
      name                   |-> "alice",
      password               |-> "pw2",
      region                 |-> "",
      flags                  |-> [o \in userOptions |->
                                    IF o = "ignore_password_expiry" THEN "false" ELSE "true"],
      multi_factor_auth_rule |-> <<Group(<<"otp", "sms">>), Group(<<"totp">>)>> ]

\* the configurations of the model: nothing set; one field set (each string
\* to its values, enabled to false, the extra map to one key, each option
\* flag to false and to true, the rule list to each non-empty list); and the
\* two configurations above, which set several fields
Configs ==
    {NoConfig, AliceConfig, FullConfig}
    \cup {[NoConfig EXCEPT !.default_project_id = "proj"]}
    \cup {[NoConfig EXCEPT !.description = v] : v \in {"old", "new"}}
    \cup {[NoConfig EXCEPT !.domain_id = "dom"]}
    \cup {[NoConfig EXCEPT !.enabled = FALSE]}
    \cup {[NoConfig EXCEPT !.extra = SomeExtra]}
    \cup {[NoConfig EXCEPT !.name = "alice"]}
    \cup {[NoConfig EXCEPT !.password = v] : v \in {"pw1", "pw2"}}
    \cup {[NoConfig EXCEPT !.flags[o] = v] : o \in userOptions, v \in {"false", "true"}}
    \cup {[NoConfig EXCEPT !.multi_factor_auth_rule = l] : l \in MFALists}

\* the fields d.HasChange reports as changed
Changed(o, n) == {key \in UpdateFields : HasChange(o, n, key)}

(***************************************************************************)
(* The plugin host: it runs one handler at a time, to completion, and      *)
(* keeps the snapshot the handler leaves; a snapshot without ID is no      *)
(* resource.                                                               *)
(***************************************************************************)
\* the handler returns to the host
Return(name, o, n, r) ==
    /\ d'        = IF r.d.id = "" THEN NoResource ELSE r.d
    /\ remote'   = r.remote
    /\ opName'   = name
    /\ clients'  = r.clients
    /\ old'      = o
    /\ new'      = n
    /\ calls'    = r.calls
    /\ log'      = r.log
    /\ err'      = r.err
    /\ nOps'     = nOps + 1
    /\ UNCHANGED <<rules, mfaRules, built>>

Init ==
    /\ d        = NoResource
    /\ remote   = <<>>
    /\ opName   = "none"
    /\ clients  = <<>>
    /\ old      = NoResource
    /\ new      = NoResource
    /\ calls    = <<>>
    /\ log      = <<>>
    /\ err      = FALSE
    /\ rules    = <<>>
    /\ mfaRules = <<>>
    /\ built    = FALSE
    /\ nOps     = 0

\* Create, on a resource that does not exist yet
Create ==
    /\ nOps < MaxOps
    /\ d.id = ""
    /\ \E cfg \in Configs :
        \/ Return("Create", d, cfg, ClientError(cfg, remote))
        \/ \E created \in BOOLEAN, newId \in UserIDs, readClient \in BOOLEAN,
                 get \in {"found", "missing", "error"} :
              Return("Create", d, cfg,
                     CreateRun(cfg, remote, created, newId, readClient, get))

\* Read, the refresh of an existing resource
Read ==
    /\ nOps < MaxOps
    /\ d.id # ""
    /\ \/ Return("Read", d, d, ClientError(d, remote))
       \/ \E get \in GetOutcomes(d, remote) :
              Return("Read", d, d, ReadRun(d, remote, get))

\* Update of an existing resource to a new configuration; the ID and the
\* region (ForceNew) stay
Update ==
    /\ nOps < MaxOps
    /\ d.id # ""
    /\ \E cfg \in Configs :
        LET n == [cfg EXCEPT !.id = d.id, !.region = d.region]
        IN  \/ Return("Update", d, n, ClientError(n, remote))
            \/ \E updated \in UpdateOutcomes(n, remote), readClient \in BOOLEAN,
                     get \in GetOutcomes(n, remote) :
                  Return("Update", d, n,
                         UpdateRun(d, n, remote, updated, readClient, get))

\* Delete of an existing resource; the host drops the snapshot when Delete
\* returns no error
Delete ==
    /\ nOps < MaxOps
    /\ d.id # ""
    /\ \/ Return("Delete", d, d, ClientError(d, remote))
       \/ \E deleted \in UpdateOutcomes(d, remote) :
              LET r == DeleteRun(d, remote, deleted)
              IN  Return("Delete", d, d,
                         IF deleted THEN [r EXCEPT !.d = NoResource] ELSE r)

Next == Create \/ Read \/ Update \/ Delete

Spec == Init /\ [][Next]_vars

(***************************************************************************)
(* BuildMFARules on its own: applied once to a list of groups.             *)
(***************************************************************************)
Tokens == {"otp", "sms"}

\* the sequences over S of length lo to hi
SeqsOf(S, lo, hi) == UNION {[1..k -> S] : k \in lo..hi}

\* the lists the schema admits: every group has at least one rule
RuleInputs == SeqsOf({Group(rl) : rl \in SeqsOf(Tokens, 1, MaxRuleLen)}, 0, MaxGroups)

InitBuild ==
    /\ d        = NoResource
    /\ remote   = <<>>
    /\ opName   = "none"
    /\ clients  = <<>>
    /\ old      = NoResource
    /\ new      = NoResource
    /\ calls    = <<>>
    /\ log      = <<>>
    /\ err      = FALSE
    /\ rules    \in RuleInputs
    /\ mfaRules = <<>>
    /\ built    = FALSE
    /\ nOps     = 0

Build ==
    /\ ~built
    /\ mfaRules' = BuildMFARules(rules)
    /\ built'    = TRUE
    /\ UNCHANGED <<d, remote, opName, clients, old, new, calls, log, err, rules, nOps>>

NextBuild == Build

SpecBuild == InitBuild /\ [][NextBuild]_vars

(***************************************************************************)
(* Properties of the handlers, C1 to C10.                                  *)
(***************************************************************************)
\* the positions of the calls of one kind in the run
CallsOf(which) == {i \in 1..Len(calls) : calls[i].call = which}

\* the request of the i-th call
Request(i) == calls[i].opts[1]

\* seq is the rule list of each group of list, in order
IsFlattened(list, seq) ==
    /\ Len(seq) = Len(list)
    /\ \A i \in 1..Len(list) : seq[i] = list[i].rule

\* list is one group per entry of seq, in order
IsRegrouped(seq, list) ==
    /\ Len(list) = Len(seq)
    /\ \A i \in 1..Len(seq) : list[i] = [rule |-> seq[i]]

\* the run was an Update that got its identity client at line 209
UpdateRan == opName = "Update" /\ clients[1]

\* every identityV3Client call of the run gave a client
AllClients == \A i \in 1..Len(clients) : clients[i]

(***************************************************************************)
(* C1. An Update in which multi_factor_auth_rule is the only changed field *)
(* marks the resource as changed and issues exactly one remote update      *)
(* call, for the ID of the entity, before it runs Read.                    *)
(***************************************************************************)
C1_OnlyRuleChangeIsSent ==
    (UpdateRan /\ AllClients /\ Changed(old, new) = {"multi_factor_auth_rule"})
        => /\ UpdateHasChange(old, new)
           /\ Cardinality(CallsOf("Update")) = 1
           /\ calls[1].call = "Update"
           /\ calls[1].id = old.id

(***************************************************************************)
(* C2. An Update with no changed field issues no remote update call and    *)
(* performs exactly one Get of the entity; when a field changed and the    *)
(* update call succeeds, the Get comes after the update call.              *)
(***************************************************************************)
\* C2, of one run: no changed field, no update call and one Get; a changed
\* field and a successful update call, the Get after it
C2_Body ==
    /\ Changed(old, new) = {}
          => /\ CallsOf("Update") = {}
             /\ Cardinality(CallsOf("Get")) = 1
             /\ \A i \in CallsOf("Get") : calls[i].id = old.id
    /\ \A i \in CallsOf("Update") :
          (Changed(old, new) # {} /\ calls[i].result = "ok")
             => /\ Cardinality(CallsOf("Get")) = 1
                /\ \A j \in CallsOf("Get") : j > i /\ calls[j].id = old.id

C3_CreateSendsEverySetFlag ==
    (opName = "Create" /\ CallsOf("Create") # {})
        => \A o \in userOptions :
              /\ o \in DOMAIN Request(1).Options <=> new.flags[o] # "unset"
              /\ o \in DOMAIN Request(1).Options
                    => Request(1).Options[o] = (new.flags[o] = "true")

(***************************************************************************)
(* C4. Whenever multi_factor_auth_rule changed, whatever the new list is,  *)
(* the options of the update request hold the rules key, and under it the  *)
(* whole flattened new list.                                               *)
(***************************************************************************)
C4_ChangedRulesAreSentWhole ==
    \A i \in CallsOf("Update") :
        HasChange(old, new, "multi_factor_auth_rule")
           => /\ MultiFactorAuthRules \in DOMAIN Request(i).Options
              /\ IsFlattened(new.multi_factor_auth_rule,
                             Request(i).Options[MultiFactorAuthRules])

(***************************************************************************)
(* C5. When the service reports the entity as missing, Read returns no     *)
(* error and the ID of the snapshot is cleared; when Get fails otherwise,  *)
(* Read returns an error and the snapshot keeps its ID.                    *)
(***************************************************************************)
C5_MissingRemovesRecord ==
    \A i \in CallsOf("Get") :
        /\ calls[i].result = "missing" => ~err /\ d.id = ""
        /\ calls[i].result = "error" => err /\ d.id = calls[i].id /\ d.id # ""

\* C5: a run in which the case happens
C5_Witness ==
    /\ opName = "Read"
    /\ old.id # ""
    /\ calls = <<Call("Get", old.id, <<>>, "missing")>>
    /\ ~err
    /\ d.id = ""

(***************************************************************************)
(* C6. After a Create that succeeds against a service that stores what it  *)
(* receives, the snapshot has default_project_id, description, domain_id,  *)
(* enabled, extra and name as submitted, and the ID the service assigned.  *)
(***************************************************************************)
C6_CreateRoundTrip ==
    (/\ opName = "Create"
     /\ ~err
     /\ Len(calls) = 2
     /\ calls[1].result = "ok"
     /\ calls[2].result = "found")
        => /\ \A key \in ScalarFields : d[key] = new[key]
           /\ Len(remote) = 1
           /\ d.id = remote[1].ID
           /\ d.id \in UserIDs

\* C6: a run in which the case happens
C6_Witness ==
    /\ opName = "Create"
    /\ ~err
    /\ Len(calls) = 2
    /\ calls[2].result = "found"
    /\ new = FullConfig
    /\ d.description = "new"
    /\ d.name = "alice"
    /\ d.enabled = FALSE
    /\ d.extra = SomeExtra
    /\ d.id = "u2"

(***************************************************************************)
(* C7. The update request carries a value for exactly the fields that      *)
(* changed: each changed field with its new value, every other field with  *)
(* nothing (the zero value, no options key).                               *)
(***************************************************************************)
C7_PayloadIsExactlyTheChanges ==
    \A i \in CallsOf("Update") :
        LET opts == Request(i)
            ch(key) == HasChange(old, new, key)
        IN  /\ opts.DefaultProjectID = (IF ch("default_project_id")
                                        THEN new.default_project_id ELSE "")
            /\ opts.Description = (IF ch("description") THEN new.description ELSE "")
            /\ opts.DomainID = (IF ch("domain_id") THEN new.domain_id ELSE "")
            /\ opts.Name = (IF ch("name") THEN new.name ELSE "")
            /\ opts.Password = (IF ch("password") THEN new.password ELSE "")
            /\ opts.Enabled = (IF ch("enabled") THEN <<new.enabled>> ELSE <<>>)
            /\ opts.Extra = (IF ch("extra") THEN <<new.extra>> ELSE <<>>)
            /\ \A o \in userOptions :
                  /\ o \in DOMAIN opts.Options <=> ch(o)
                  /\ o \in DOMAIN opts.Options => opts.Options[o] = GetFlag(new, o)
            /\ MultiFactorAuthRules \in DOMAIN opts.Options
                  <=> ch("multi_factor_auth_rule")

(***************************************************************************)
(* C8. BuildMFARules of N groups returns N entries, entry i the rule list  *)
(* of group i; of the empty list it returns the empty sequence.            *)
(***************************************************************************)
C8_BuildKeepsEveryGroupInOrder ==
    built => /\ IsFlattened(rules, mfaRules)
             /\ rules = <<>> => mfaRules = <<>>

\* C8: a run in which the case happens
C8_Witness ==
    /\ built
    /\ Len(rules) = MaxGroups
    /\ rules[1].rule # rules[2].rule
    /\ mfaRules[1] = rules[1].rule
    /\ mfaRules[2] = rules[2].rule

(***************************************************************************)
(* C9. After every successful Read, multi_factor_auth_rule is one group    *)
(* per entry of the rules the service holds, and empty when the service    *)
(* holds no rules key, whatever the snapshot held before.                  *)
(***************************************************************************)
C9_ReadMirrorsRemoteRules ==
    (/\ ~err
     /\ CallsOf("Get") # {}
     /\ \A i \in CallsOf("Get") : calls[i].result = "found")
        => IF MultiFactorAuthRules \in DOMAIN remote[1].Options
           THEN IsRegrouped(remote[1].Options[MultiFactorAuthRules],
                            d.multi_factor_auth_rule)
           ELSE d.multi_factor_auth_rule = <<>>

(***************************************************************************)
(* C10. The options written to the debug log by Create and Update never    *)
(* hold the password; the create request carries the configured password,  *)
(* the update request the new password when the password changed; a        *)
(* change of the password alone makes Update issue the update call.        *)
(***************************************************************************)
\* C10, the log and the requests: no password in a logged options value, the
\* password in the create request, the new password in the update request
C10_LogAndRequests ==
    /\ \A i \in 1..Len(log) :
          log[i].msg \in {"Create Options", "Update Options"}
             => log[i].val.Password = ""
    /\ \A i \in CallsOf("Create") : Request(i).Password = new.password
    /\ \A i \in CallsOf("Update") :
          HasChange(old, new, "password") => Request(i).Password = new.password
    /\ opName = "Create" /\ clients[1]
          => /\ CallsOf("Create") = {1}
             /\ Len(log) >= 1
             /\ log[1].msg = "Create Options"

\* C10, the run issues one update call, first, carrying the new password
C10_PasswordAloneIsSent ==
    /\ Cardinality(CallsOf("Update")) = 1
    /\ calls[1].call = "Update"
    /\ Request(1).Password = new.password

====
